---- MODULE Spec2Model ----
(***************************************************************************)
(* LRUCache<K, V, H> of src/src/lru_cache.rs as a state machine.           *)
(*                                                                         *)
(* Nodes live in an arena `nodes` (a sequence, in allocation order); an    *)
(* Option<Rc<RefCell<Node>>> is a node id 1..Len(nodes), or None.          *)
(* Every handler (new, get, try_get, set) is one action; the private       *)
(* helpers are operators on the record `Self` of the cache's fields.       *)
(***************************************************************************)
EXTENDS Integers, Sequences, FiniteSets, TLC

\* ---------------------------------------------------------------- bounds
MaxKey   == 3   \* keys are 1..MaxKey
MaxVal   == 2   \* values are 1..MaxVal
MaxNodes == 3   \* Node allocations explored
MaxCap   == 2   \* max_size ranges over 0..MaxCap
MaxH     == 2   \* the bucket count H ranges over 0..MaxH
MaxLen   == 5   \* longest SinglyLinkedList explored

Keys == 1..MaxKey
Vals == 1..MaxVal
\* outputs of the hasher: one representative of each residue class mod h
HashValues(h) == 0..(IF h = 0 THEN 0 ELSE h - 1)

None == 0

VARIABLES
    status,        \* "start" before LRUCache::new, "ready" after it, "panic" once a call panicked
    H,             \* the const generic H
    hasher_finish, \* key -> hasher.finish() as usize, fixed for the run
    max_size, total_size, list_header, list_tail, hash_indices,
    nodes,         \* arena of Node records
    lastOp,        \* the last call and what it returned
    lru,           \* reference: keys of an ideal LRU of capacity max_size, most recent first
    lastSet,       \* reference: key -> value of the last set(key, _), or None
    trace,         \* calls since new, recorded while they follow a tracked scenario
    head,          \* SinglyLinkedList: the data of the Nodes owned from head, head first
    count,         \* SinglyLinkedList: count
    lastListOp,    \* the last SinglyLinkedList call and what it returned
    pushed         \* reference: the data pushed and not yet popped, oldest first

cacheVars == <<status, H, hasher_finish, max_size, total_size, list_header, list_tail,
               hash_indices, nodes, lastOp, lru, lastSet, trace>>

listVars == <<head, count, lastListOp, pushed>>

vars == <<cacheVars, listVars>>

\* ---------------------------------------------------------------- Node
Node_new(key, val) ==
    [key |-> key, val |-> val,
     list_prev |-> None, list_next |-> None,
     hash_prev |-> None, hash_next |-> None]

\* the fields of the cache, as the helpers below take and return them
Self ==
    [max_size |-> max_size, total_size |-> total_size,
     list_header |-> list_header, list_tail |-> list_tail,
     hash_indices |-> hash_indices, nodes |-> nodes]

\* ---------------------------------------------------------------- helpers
\* hasher.finish() as usize % H; the caller has checked H # 0 (else a panic)
get_key_hash(key) == hasher_finish[key] % H

\* the while-let loop of find_node_by_key; Diverges when the walk outruns
\* every node of the arena (a cyclic chain)
Diverges == 0 - 1

\* chain_walk with the key comparison left out: the bucket head matches any key
chain_walk_any_key(c, p, key, fuel) == p

RECURSIVE chain_walk(_, _, _, _)
chain_walk(c, p, key, fuel) ==
    IF p = None THEN None
    ELSE IF c.nodes[p].key = key THEN p
    ELSE IF fuel = 0 THEN Diverges
    ELSE chain_walk(c, c.nodes[p].hash_next, key, fuel - 1)

find_node_by_key(c, key) ==
    LET key_hash == get_key_hash(key)
    IN  IF key_hash \in DOMAIN c.hash_indices
        THEN chain_walk(c, c.hash_indices[key_hash], key, Len(c.nodes))
        ELSE None

\* move_node_to_list_head that clears the Node's hash_prev instead of its list_prev
move_node_to_list_head_wrong_prev(c, node) ==
    LET prev_node == c.nodes[node].list_prev
        next_node == c.nodes[node].list_next
        n1 == IF prev_node # None
              THEN [c.nodes EXCEPT ![prev_node].list_next = next_node]
              ELSE c.nodes
        n2 == IF next_node # None
              THEN [n1 EXCEPT ![next_node].list_prev = prev_node]
              ELSE n1
        n3 == [n2 EXCEPT ![node].hash_prev = None]
        n4 == [n3 EXCEPT ![node].list_next = c.list_header]
    IN  [c EXCEPT !.nodes = n4, !.list_header = node]

move_node_to_list_head(c, node) ==
    LET prev_node == c.nodes[node].list_prev
        next_node == c.nodes[node].list_next
        n1 == IF prev_node # None
              THEN [c.nodes EXCEPT ![prev_node].list_next = next_node]
              ELSE c.nodes
        n2 == IF next_node # None
              THEN [n1 EXCEPT ![next_node].list_prev = prev_node]
              ELSE n1
        n3 == [n2 EXCEPT ![node].list_prev = None]
        n4 == [n3 EXCEPT ![node].list_next = c.list_header]
    IN  [c EXCEPT !.nodes = n4, !.list_header = node]

remove_list_tail(c) ==
    IF c.list_tail = None THEN c
    ELSE
    LET tail == c.list_tail
        lp   == c.nodes[tail].list_prev
        n1   == IF lp # None THEN [c.nodes EXCEPT ![lp].list_next = None] ELSE c.nodes
        prev_node == n1[tail].hash_prev
        next_node == n1[tail].hash_next
        n2   == IF prev_node # None
                THEN [n1 EXCEPT ![prev_node].hash_next = next_node]
                ELSE n1
        hi   == IF prev_node # None
                THEN c.hash_indices
                ELSE [c.hash_indices EXCEPT ![get_key_hash(n1[tail].key)] = next_node]
        n3   == IF next_node # None
                THEN [n2 EXCEPT ![next_node].hash_prev = prev_node]
                ELSE n2
    IN  [c EXCEPT !.list_tail = lp, !.nodes = n3, !.hash_indices = hi]

\* the hit branch of set: promote, then overwrite the value
set_hit(c, node, val) ==
    LET c1 == move_node_to_list_head(c, node)
    IN  [c1 EXCEPT !.nodes[node].val = val]

\* set_miss with the count taken on both branches: a full cache counts the new Node too
set_miss_always_counts(c, key, val) ==
    LET node == Len(c.nodes) + 1
        n0 == Append(c.nodes, Node_new(key, val))
        n1 == IF c.list_header # None
              THEN [n0 EXCEPT ![c.list_header].list_prev = node]
              ELSE n0
        n2 == [n1 EXCEPT ![node].list_next = c.list_header]
        key_hash == get_key_hash(key)
        occupied == key_hash \in DOMAIN c.hash_indices /\ c.hash_indices[key_hash] # None
        index == c.hash_indices[key_hash]
        n3 == IF occupied THEN [n2 EXCEPT ![index].hash_prev = node] ELSE n2
        hi == IF occupied
              THEN [c.hash_indices EXCEPT ![key_hash] = index]
              ELSE [c.hash_indices EXCEPT ![key_hash] = node]
        c1 == [c EXCEPT !.nodes = n3, !.list_header = node, !.hash_indices = hi]
    IN  [(IF c1.total_size >= c1.max_size THEN remove_list_tail(c1) ELSE c1)
            EXCEPT !.total_size = c1.total_size + 1]

\* set_miss with the bucket links crossed: the old bucket head and the new
\* Node name each other as hash_next
set_miss_crossed_links(c, key, val) ==
    LET node == Len(c.nodes) + 1
        n0 == Append(c.nodes, Node_new(key, val))
        n1 == IF c.list_header # None
              THEN [n0 EXCEPT ![c.list_header].list_prev = node]
              ELSE n0
        n2 == [n1 EXCEPT ![node].list_next = c.list_header]
        key_hash == get_key_hash(key)
        occupied == key_hash \in DOMAIN c.hash_indices /\ c.hash_indices[key_hash] # None
        index == c.hash_indices[key_hash]
        n3 == IF occupied
              THEN [n2 EXCEPT ![index].hash_next = node, ![node].hash_next = index]
              ELSE n2
        hi == IF occupied
              THEN [c.hash_indices EXCEPT ![key_hash] = index]
              ELSE [c.hash_indices EXCEPT ![key_hash] = node]
        c1 == [c EXCEPT !.nodes = n3, !.list_header = node, !.hash_indices = hi]
    IN  IF c1.total_size >= c1.max_size
        THEN remove_list_tail(c1)
        ELSE [c1 EXCEPT !.total_size = c1.total_size + 1]

\* the miss branch of set: allocate, link at the list head, link into the
\* bucket, then evict or count
set_miss(c, key, val) ==
    LET node == Len(c.nodes) + 1
        n0 == Append(c.nodes, Node_new(key, val))
        n1 == IF c.list_header # None
              THEN [n0 EXCEPT ![c.list_header].list_prev = node]
              ELSE n0
        n2 == [n1 EXCEPT ![node].list_next = c.list_header]
        key_hash == get_key_hash(key)
        occupied == key_hash \in DOMAIN c.hash_indices /\ c.hash_indices[key_hash] # None
        index == c.hash_indices[key_hash]
        n3 == IF occupied THEN [n2 EXCEPT ![index].hash_prev = node] ELSE n2
        hi == IF occupied
              THEN [c.hash_indices EXCEPT ![key_hash] = index]
              ELSE [c.hash_indices EXCEPT ![key_hash] = node]
        c1 == [c EXCEPT !.nodes = n3, !.list_header = node, !.hash_indices = hi]
    IN  IF c1.total_size >= c1.max_size
        THEN remove_list_tail(c1)
        ELSE [c1 EXCEPT !.total_size = c1.total_size + 1]

set(c, key, val) ==
    LET node == find_node_by_key(c, key)
    IN  IF node # None THEN set_hit(c, node, val) ELSE set_miss(c, key, val)

\* get with the promotion left out: `then` is called, the Node stays where it is
get_without_promotion(c, key) == c

\* get(key, then): the cache afterwards
get(c, key) ==
    LET node == find_node_by_key(c, key)
    IN  IF node # None THEN move_node_to_list_head(c, node) ELSE c

\* get(key, then): the values `then` is called with, one per call, in order
then_calls(c, key) ==
    LET node == find_node_by_key(c, key)
    IN  IF node # None
        THEN <<move_node_to_list_head(c, node).nodes[node].val>>
        ELSE <<>>

\* try_get(key): the cache afterwards and the Option returned
try_get(c, key) ==
    LET node == find_node_by_key(c, key)
    IN  IF node # None
        THEN LET c1 == move_node_to_list_head(c, node)
             IN  [cache |-> c1, ret |-> c1.nodes[node].val]
        ELSE [cache |-> c, ret |-> None]

\* what try_get returns (None on a miss); get hands the same value to `then`
try_get_value(c, key) ==
    LET node == find_node_by_key(c, key)
    IN  IF node # None THEN get(c, key).nodes[node].val ELSE None

\* new with total_size initialised from max_size instead of 0
new_size_from_max(ms) ==
    [max_size |-> ms, total_size |-> ms, list_header |-> None, list_tail |-> None,
     hash_indices |-> [i \in 0..(H - 1) |-> None], nodes |-> <<>>]

new(ms) ==
    [max_size |-> ms, total_size |-> 0, list_header |-> None, list_tail |-> None,
     hash_indices |-> [i \in 0..(H - 1) |-> None], nodes |-> <<>>]

\* ---------------------------------------------------------------- reference LRU
SeqWithout(s, k) == SelectSeq(s, LAMBDA x : x # k)
InSeq(s, k) == \E i \in 1..Len(s) : s[i] = k
Touch(s, k) == <<k>> \o SeqWithout(s, k)
Trim(s, cap) == IF Len(s) > cap THEN SubSeq(s, 1, cap) ELSE s
RefSet(s, k, cap) == Trim(Touch(s, k), cap)
RefGet(s, k) == IF InSeq(s, k) THEN Touch(s, k) ELSE s

\* ---------------------------------------------------------------- tracked scenarios
Call(op, key, val) == [op |-> op, key |-> key, val |-> val]
IsGet(c) == c.op \in {"get", "try_get"}

\* sets of pairwise distinct keys and nothing else
DistinctSets(t) ==
    /\ \A i \in 1..Len(t) : t[i].op = "set"
    /\ \A i, j \in 1..Len(t) : i # j => t[i].key # t[j].key

\* a prefix of set(a, _); set(b, _); get(a); set(c, _) with a, b, c distinct
PromotionScenario(t) ==
    /\ Len(t) <= 4
    /\ Len(t) >= 1 => t[1].op = "set"
    /\ Len(t) >= 2 => t[2].op = "set" /\ t[2].key # t[1].key
    /\ Len(t) >= 3 => IsGet(t[3]) /\ t[3].key = t[1].key
    /\ Len(t) >= 4 => t[4].op = "set" /\ t[4].key \notin {t[1].key, t[2].key}

Tracked(t) == DistinctSets(t) \/ PromotionScenario(t)

Record(call) ==
    IF trace.on /\ Tracked(Append(trace.calls, call))
    THEN [on |-> TRUE, calls |-> Append(trace.calls, call)]
    ELSE [on |-> FALSE, calls |-> <<>>]

\* ---------------------------------------------------------------- the machine
Op(op, key, val, ret, calls) ==
    [op |-> op, key |-> key, val |-> val, ret |-> ret, calls |-> calls]

Install(c) ==
    /\ max_size' = c.max_size
    /\ total_size' = c.total_size
    /\ list_header' = c.list_header
    /\ list_tail' = c.list_tail
    /\ hash_indices' = c.hash_indices
    /\ nodes' = c.nodes

\* a call that panics in get_key_hash (remainder by zero) before touching anything
Panic(op, key, val) ==
    /\ status' = "panic"
    /\ lastOp' = Op(op, key, val, None, 0)
    /\ UNCHANGED <<H, hasher_finish, max_size, total_size, list_header, list_tail,
                   hash_indices, nodes, lru, lastSet, trace>>
    /\ UNCHANGED listVars

\* ---------------------------------------------------------------- SinglyLinkedList
\* the fields of the list, as push and pop take and return them
SinglyLinkedList_new == [head |-> <<>>, count |-> 0]

\* push that links the new Node after the last one instead of before the first
push_at_tail(l, data) == [head |-> Append(l.head, data), count |-> l.count + 1]

\* Node { data, next: self.head.take() } becomes the head; count += 1
push(l, data) == [head |-> <<data>> \o l.head, count |-> l.count + 1]

\* self.head.take().map(..): the list afterwards and the Option returned
pop(l) ==
    IF l.head = <<>>
    THEN [list |-> [head |-> <<>>, count |-> l.count], ret |-> None]
    ELSE [list |-> [head |-> Tail(l.head), count |-> l.count - 1], ret |-> Head(l.head)]

ListOp(op, data, ret) == [op |-> op, data |-> data, ret |-> ret]

ListStart ==
    /\ head = SinglyLinkedList_new.head
    /\ count = SinglyLinkedList_new.count
    /\ lastListOp = ListOp("none", None, None)
    /\ pushed = <<>>

Init ==
    /\ ListStart
    /\ status = "start"
    /\ H \in 0..MaxH
    /\ hasher_finish \in [Keys -> HashValues(H)]
    /\ max_size = 0
    /\ total_size = 0
    /\ list_header = None
    /\ list_tail = None
    /\ hash_indices = <<>>
    /\ nodes = <<>>
    /\ lastOp = Op("none", None, None, None, 0)
    /\ lru = <<>>
    /\ lastSet = [k \in Keys |-> None]
    /\ trace = [on |-> TRUE, calls |-> <<>>]

New(ms) ==
    /\ status = "start"
    /\ status' = "ready"
    /\ Install(new(ms))
    /\ lastOp' = Op("new", None, None, None, 0)
    /\ UNCHANGED <<H, hasher_finish, lru, lastSet, trace>>
    /\ UNCHANGED listVars

Set(key, val) ==
    /\ status = "ready"
    /\ IF H = 0 THEN Panic("set", key, val)
       ELSE /\ find_node_by_key(Self, key) # None \/ Len(nodes) < MaxNodes
            /\ Install(set(Self, key, val))
            /\ status' = "ready"
            /\ lastOp' = Op("set", key, val, None, 0)
            /\ lru' = RefSet(lru, key, max_size)
            /\ lastSet' = [lastSet EXCEPT ![key] = val]
            /\ trace' = Record(Call("set", key, val))
            /\ UNCHANGED <<H, hasher_finish>>
            /\ UNCHANGED listVars

Get(key) ==
    /\ status = "ready"
    /\ IF H = 0 THEN Panic("get", key, None)
       ELSE /\ Install(get(Self, key))
            /\ status' = "ready"
            /\ lastOp' = Op("get", key, None, None, Len(then_calls(Self, key)))
            /\ lru' = RefGet(lru, key)
            /\ trace' = Record(Call("get", key, None))
            /\ UNCHANGED <<H, hasher_finish, lastSet>>
            /\ UNCHANGED listVars

TryGet(key) ==
    /\ status = "ready"
    /\ IF H = 0 THEN Panic("try_get", key, None)
       ELSE /\ Install(try_get(Self, key).cache)
            /\ status' = "ready"
            /\ lastOp' = Op("try_get", key, None, try_get(Self, key).ret, 0)
            /\ lru' = RefGet(lru, key)
            /\ trace' = Record(Call("try_get", key, None))
            /\ UNCHANGED <<H, hasher_finish, lastSet>>
            /\ UNCHANGED listVars

Next ==
    \/ \E ms \in 0..MaxCap : New(ms)
    \/ \E key \in Keys, val \in Vals : Set(key, val)
    \/ \E key \in Keys : Get(key)
    \/ \E key \in Keys : TryGet(key)

Spec == Init /\ [][Next]_vars

\* ---------------------------------------------------------------- the list alone
ListInit ==
    /\ ListStart
    /\ status = "start"
    /\ H = 0
    /\ hasher_finish = [k \in Keys |-> 0]
    /\ max_size = 0
    /\ total_size = 0
    /\ list_header = None
    /\ list_tail = None
    /\ hash_indices = <<>>
    /\ nodes = <<>>
    /\ lastOp = Op("none", None, None, None, 0)
    /\ lru = <<>>
    /\ lastSet = [k \in Keys |-> None]
    /\ trace = [on |-> TRUE, calls |-> <<>>]

Push(data) ==
    /\ count < MaxLen
    /\ LET l == push([head |-> head, count |-> count], data)
       IN  head' = l.head /\ count' = l.count
    /\ lastListOp' = ListOp("push", data, None)
    /\ pushed' = Append(pushed, data)
    /\ UNCHANGED cacheVars

Pop ==
    /\ LET r == pop([head |-> head, count |-> count])
       IN  head' = r.list.head /\ count' = r.list.count
           /\ lastListOp' = ListOp("pop", None, r.ret)
    /\ pushed' = IF pushed = <<>> THEN pushed ELSE SubSeq(pushed, 1, Len(pushed) - 1)
    /\ UNCHANGED cacheVars

ListNext ==
    \/ \E data \in Vals : Push(data)
    \/ Pop

ListSpec == ListInit /\ [][ListNext]_vars

\* ---------------------------------------------------------------- what the cache holds
RECURSIVE list_reach(_, _, _)
list_reach(c, p, seen) ==
    IF p = None \/ p \in seen THEN seen
    ELSE list_reach(c, c.nodes[p].list_next, seen \cup {p})

RECURSIVE chain_reach(_, _, _)
chain_reach(c, p, seen) ==
    IF p = None \/ p \in seen THEN seen
    ELSE chain_reach(c, c.nodes[p].hash_next, seen \cup {p})

\* Nodes reachable from list_header by list_next
ListNodes(c) == list_reach(c, c.list_header, {})

\* Nodes reachable from a bucket slot by hash_next
ChainNodes(c) ==
    UNION { chain_reach(c, c.hash_indices[i], {}) : i \in DOMAIN c.hash_indices }

LiveNodes(c) == ListNodes(c) \cup ChainNodes(c)
LiveKeys(c) == { c.nodes[n].key : n \in LiveNodes(c) }

\* the recency list read from the head, up to None or the first Node met twice
RECURSIVE list_walk(_, _, _)
list_walk(c, p, walked) ==
    IF p = None \/ InSeq(walked, p) THEN walked
    ELSE list_walk(c, c.nodes[p].list_next, Append(walked, p))

ListSeq(c) == list_walk(c, c.list_header, <<>>)
ListKeys(c) == [i \in 1..Len(ListSeq(c)) |-> c.nodes[ListSeq(c)[i]].key]

Retrievable(c, key) == try_get_value(c, key) # None

Ready == status = "ready"
LastIsGet == lastOp.op \in {"get", "try_get"}
LastHit == LastIsGet /\ (lastOp.ret # None \/ lastOp.calls > 0)

\* ---------------------------------------------------------------- claims

\* C1: LRU order correctness. After sets of pairwise distinct keys k1..kn,
\* n > capacity >= 1, and nothing else, the retrievable keys are exactly the
\* last `capacity` keys set, and the recency list from the head lists them
\* in reverse insertion order.
LRUOrderCorrectness ==
    (Ready /\ trace.on /\ DistinctSets(trace.calls)
        /\ max_size >= 1 /\ Len(trace.calls) > max_size) =>
    LET n == Len(trace.calls)
        survivors == [i \in 1..max_size |-> trace.calls[n + 1 - i].key]
    IN  /\ \A k \in Keys : Retrievable(Self, k) <=> InSeq(survivors, k)
        /\ ListKeys(Self) = survivors

\* C2: round trip. Every key that an LRU policy of the same capacity still
\* holds is a hit, and the hit yields the value of the last set of that key.
RoundTrip ==
    Ready => \A k \in Keys : InSeq(lru, k) => try_get_value(Self, k) = lastSet[k]

\* C3: capacity invariant. total_size never exceeds max_size.
CapacityInvariant == total_size <= max_size

\* C3 witness: a set that allocated a Node for a cache that was already full
CapacityWitness ==
    /\ Ready /\ lastOp.op = "set"
    /\ max_size >= 1 /\ total_size = max_size /\ Len(nodes) > max_size

\* C4: on a cache of capacity >= 1, total_size equals the number of live
\* Nodes (Nodes linked in the recency list or in a bucket chain), which
\* therefore never exceeds capacity.
SizeMatchesContents ==
    (Ready /\ max_size >= 1) =>
        /\ total_size = Cardinality(LiveNodes(Self))
        /\ Cardinality(LiveNodes(Self)) <= max_size

\* C5: key uniqueness. On a cache of capacity >= 1, no two live Nodes hold
\* the same key.
KeyUniqueness ==
    (Ready /\ max_size >= 1) =>
        \A n, m \in LiveNodes(Self) : n # m => nodes[n].key # nodes[m].key

\* C6: promotion on read. A get/try_get hit leaves the key's Node at the
\* head of the recency list, and after set(a, x); set(b, y); get(a); set(c, z)
\* on a cache of capacity 2, b misses while a and c yield x and z.
PromotionOnRead ==
    /\ (Ready /\ LastHit) =>
          list_header # None /\ nodes[list_header].key = lastOp.key
    /\ (Ready /\ max_size = 2 /\ trace.on /\ Len(trace.calls) = 4
          /\ PromotionScenario(trace.calls) /\ IsGet(trace.calls[3])) =>
          /\ ~Retrievable(Self, trace.calls[2].key)
          /\ try_get_value(Self, trace.calls[1].key) = trace.calls[1].val
          /\ try_get_value(Self, trace.calls[4].key) = trace.calls[4].val

\* C7: overwrite preserves size. set(k, v) for a key that was set before and
\* that an LRU of the same capacity has not evicted leaves total_size and the
\* number of live Nodes unchanged, allocates no Node, and leaves k's Node at
\* the head of the recency list.
OverwritePreservesSize ==
    [][(Ready /\ status' = "ready" /\ lastOp'.op = "set" /\ InSeq(lru, lastOp'.key)) =>
          /\ total_size' = total_size
          /\ Cardinality(LiveNodes(Self)') = Cardinality(LiveNodes(Self))
          /\ Len(nodes') = Len(nodes)
          /\ list_header' # None
          /\ nodes'[list_header'].key = lastOp'.key]_vars

\* C8: eviction on a full insert. set of an absent key on a cache that holds
\* capacity entries removes the least recently used entry (the last Node of
\* the recency list): its key then misses and total_size stays at capacity;
\* on a cache that is not full the set removes nothing.
EvictionOnFullInsert ==
    [][(Ready /\ status' = "ready" /\ lastOp'.op = "set" /\ max_size >= 1
          /\ lastOp'.key \notin LiveKeys(Self)) =>
          IF total_size = max_size
          THEN LET walked == ListSeq(Self)
                   victim == nodes[walked[Len(walked)]].key
               IN  /\ LiveKeys(Self)' = (LiveKeys(Self) \ {victim}) \cup {lastOp'.key}
                   /\ ~Retrievable(Self, victim)'
                   /\ total_size' = max_size
          ELSE /\ LiveKeys(Self)' = LiveKeys(Self) \cup {lastOp'.key}
               /\ total_size' = total_size + 1]_vars

\* C9: miss does not mutate. A get or try_get that returns, called with a key
\* that no live Node holds, yields None without calling `then`, and leaves
\* total_size, list_header, list_tail, every bucket slot and every Node
\* (its value and its four links) unchanged.
MissDoesNotMutate ==
    [][(Ready /\ status' = "ready" /\ lastOp'.op \in {"get", "try_get"}
          /\ lastOp'.key \notin LiveKeys(Self)) =>
          /\ lastOp'.ret = None /\ lastOp'.calls = 0
          /\ UNCHANGED <<max_size, total_size, list_header, list_tail,
                         hash_indices, nodes>>]_vars

\* C9 witness: a miss on a cache that holds Nodes, none of them with the key
MissWitness ==
    /\ Ready /\ LastIsGet /\ ~LastHit
    /\ nodes # <<>> /\ hash_indices[get_key_hash(lastOp.key)] # None
    /\ lastOp.key \notin LiveKeys(Self)

CallsAreTotal == status # "panic"

\* C12: the two get shapes are equivalent. From the same cache and for the
\* same key, get(key, then) calls `then` once with the value try_get(key)
\* returns on a hit and not at all when try_get(key) returns None, and both
\* leave the same cache (size, list links, bucket links, values).
GetShapesEquivalent ==
    (Ready /\ H # 0) =>
        \A k \in Keys :
            LET t == try_get(Self, k)
            IN  /\ get(Self, k) = t.cache
                /\ then_calls(Self, k) = (IF t.ret = None THEN <<>> ELSE <<t.ret>>)

\* C12 witness: after a get hit that changed the cache, with one key that
\* would hit (and move its Node) and one key that would miss
GetShapesWitness ==
    /\ Ready /\ lastOp.op = "get" /\ lastOp.calls = 1
    /\ \E k \in Keys : try_get(Self, k).ret # None /\ try_get(Self, k).cache # Self
    /\ \E k \in Keys : try_get(Self, k).ret = None /\ then_calls(Self, k) = <<>>

\* C13: SinglyLinkedList is a LIFO stack. pop returns the most recently
\* pushed element not yet popped, or None when there is none, then leaving
\* the list empty and count as it was; count always equals the number of
\* elements pushed and not yet popped.
ListIsLifo ==
    /\ [](count = Len(pushed))
    /\ [][lastListOp'.op = "pop" =>
            IF pushed = <<>>
            THEN lastListOp'.ret = None /\ head' = <<>> /\ count' = count
            ELSE lastListOp'.ret = pushed[Len(pushed)] /\ count' = count - 1]_vars

\* C13 witness: a pop returned an element and left a list whose head holds
\* another value, pushed earlier
ListWitness ==
    /\ lastListOp.op = "pop" /\ lastListOp.ret # None
    /\ head # <<>> /\ head[1] # lastListOp.ret /\ count = Len(head)

\* C14: index and order agree. The Nodes reachable from list_header by
\* list_next are the Nodes reachable from the bucket slots by hash_next; each
\* occurs once in the recency list and in one bucket chain, the chain that
\* starts at hash_indices[hash(key) mod H] for its own key.
IndexAndOrderAgree ==
    (Ready /\ H # 0 /\ max_size >= 1) =>
        /\ ListNodes(Self) = ChainNodes(Self)
        /\ \A n \in LiveNodes(Self) :
              /\ Cardinality({i \in 1..Len(ListSeq(Self)) : ListSeq(Self)[i] = n}) = 1
              /\ Cardinality({i \in DOMAIN hash_indices :
                                 n \in chain_reach(Self, hash_indices[i], {})}) = 1
              /\ n \in chain_reach(Self, hash_indices[get_key_hash(nodes[n].key)], {})

\* C15: bucket insertion at the head. When set allocates a Node for a key,
\* the key's bucket slot references the new Node afterwards and the new
\* Node's hash_prev is None; if the slot referenced a Node p before, the new
\* Node's hash_next is p and p's hash_prev is the new Node, else the new
\* Node's hash_next is None.
BucketInsertionAtHead ==
    [][(Ready /\ status' = "ready" /\ max_size >= 1 /\ lastOp'.op = "set"
          /\ Len(nodes') = Len(nodes) + 1) =>
          LET slot == get_key_hash(lastOp'.key)
              p == hash_indices[slot]
              node == Len(nodes')
          IN  /\ hash_indices'[slot] = node
              /\ nodes'[node].hash_prev = None
              /\ IF p # None
                 THEN nodes'[node].hash_next = p /\ nodes'[p].hash_prev = node
                 ELSE nodes'[node].hash_next = None]_vars

\* whether the walk from list_header ends at None (and not in a cycle)
ListEndsAtNone(c) ==
    LET walked == ListSeq(c)
    IN  walked = <<>> \/ c.nodes[walked[Len(walked)]].list_next = None

\* C16: the recency list is a well-formed doubly-linked list. On a cache
\* that holds Nodes, list_header's list_prev is None, m's list_prev is n
\* whenever n's list_next is m, and the walk from list_header by list_next
\* visits every live Node once and ends at None after total_size steps.
RecencyListWellFormed ==
    (Ready /\ max_size >= 1 /\ nodes # <<>>) =>
        /\ list_header # None
        /\ nodes[list_header].list_prev = None
        /\ \A n \in LiveNodes(Self) :
              /\ nodes[n].list_next # n
              /\ nodes[n].list_next # None => nodes[nodes[n].list_next].list_prev = n
        /\ ListEndsAtNone(Self)
        /\ ListNodes(Self) = LiveNodes(Self)
        /\ Len(ListSeq(Self)) = total_size

\* C17: the tail tracks the eviction candidate. list_tail is None exactly
\* when the cache holds no Node; otherwise it is the last Node of the walk
\* from list_header, its list_next is None, and its key is the least
\* recently set or read one.
TailTracksCandidate ==
    (Ready /\ max_size >= 1) =>
        /\ list_tail = None <=> LiveNodes(Self) = {}
        /\ list_tail # None =>
              /\ nodes[list_tail].list_next = None
              /\ list_tail = ListSeq(Self)[Len(ListSeq(Self))]
              /\ lru # <<>> /\ nodes[list_tail].key = lru[Len(lru)]

\* the keys the index answers for
StoredKeys(c) == { k \in Keys : find_node_by_key(c, k) # None }

\* C18: a get hit changes only the recency order. A get or try_get hit
\* leaves total_size, the set of stored keys (the keys a lookup finds), the
\* number of Nodes, every Node's key and value, every bucket slot and every
\* hash_prev and hash_next unchanged.
GetHitChangesOnlyOrder ==
    [][(Ready /\ status' = "ready" /\ lastOp'.op \in {"get", "try_get"}
          /\ (lastOp'.ret # None \/ lastOp'.calls > 0)) =>
          /\ total_size' = total_size /\ max_size' = max_size
          /\ hash_indices' = hash_indices
          /\ StoredKeys(Self)' = StoredKeys(Self)
          /\ Len(nodes') = Len(nodes)
          /\ \A n \in 1..Len(nodes) :
                /\ nodes'[n].key = nodes[n].key
                /\ nodes'[n].val = nodes[n].val
                /\ nodes'[n].hash_prev = nodes[n].hash_prev
                /\ nodes'[n].hash_next = nodes[n].hash_next]_vars

\* C18 witness: a hit moved a Node from inside the list to the head, on a
\* cache where some Node has a hash_prev
GetHitWitness ==
    /\ Ready /\ LastHit /\ list_header # None
    /\ nodes[list_header].list_next \notin {None, list_header}
    /\ \E n \in 1..Len(nodes) : nodes[n].hash_prev # None

\* C19: promoting the current head is a no-op on the order. When get,
\* try_get or an overwriting set finds the Node that is list_header, the
\* head, the tail and every list_prev and list_next are as before, and the
\* Node's list_next does not reference the Node itself.
HeadPromotionIsNoOp ==
    [][(Ready /\ status' = "ready" /\ max_size >= 1
          /\ lastOp'.op \in {"get", "try_get", "set"}
          /\ list_header # None
          /\ find_node_by_key(Self, lastOp'.key) = list_header) =>
          /\ list_header' = list_header /\ list_tail' = list_tail
          /\ Len(nodes') = Len(nodes)
          /\ \A n \in 1..Len(nodes) :
                /\ nodes'[n].list_prev = nodes[n].list_prev
                /\ nodes'[n].list_next = nodes[n].list_next
          /\ nodes'[list_header'].list_next # list_header']_vars

\* C20: every operation terminates. No bucket chain contains a cycle, so
\* the walk of find_node_by_key reaches a matching Node or None for every
\* key; nothing else in get, try_get or set loops.
LookupTerminates ==
    (Ready /\ H # 0) =>
        /\ \A n \in ChainNodes(Self) : n \notin chain_reach(Self, nodes[n].hash_next, {})
        /\ \A k \in Keys : find_node_by_key(Self, k) # Diverges

\* C20 witness: the arena is full and a lookup walks an occupied bucket to
\* its end without a match
LookupWitness ==
    /\ Ready /\ H # 0 /\ Len(nodes) = MaxNodes /\ lastOp.op \in {"get", "try_get"}
    /\ hash_indices[get_key_hash(lastOp.key)] # None
    /\ find_node_by_key(Self, lastOp.key) = None

====
